---- MODULE Spec2Model ----
(***************************************************************************)
(* patch_script.py: apply_changes splits a document into lines, applies a  *)
(* fixed list of list.insert / re.sub edits in order, joins the lines and  *)
(* the module-level script writes the result to processGPX_new.            *)
(*                                                                         *)
(* Documents are TLA+ strings; "\n" is the line separator.  Line indices   *)
(* of the operations are 0-based as in the source, sequences are 1-based.  *)
(***************************************************************************)
EXTENDS Integers, Sequences, FiniteSets, TLC

VARIABLES inFile, outFile, content, lines, k, pc, new_content, ops,
          orig, origin, log

vars == <<inFile, outFile, content, lines, k, pc, new_content, ops,
          orig, origin, log>>

NL == "\n"

(***************************************************************************)
(* Bounds of the model.                                                    *)
(***************************************************************************)
\* document lengths are taken from one below each threshold to Slack above it
Slack == 1
\* largest number of lines of a small document
MaxDocLines == 3
\* largest index of an operation applied to a small document
MaxIndex == 4

(***************************************************************************)
(* The edit operations.                                                    *)
(***************************************************************************)
Ins(i, c) == [type |-> "Insert", index |-> i, content |-> c,
              pattern |-> "", replacement |-> ""]

Rep(i, p, r) == [type |-> "Replace", index |-> i, content |-> "",
                 pattern |-> p, replacement |-> r]

CompiledOps ==
    << Ins(4824, "# Stage 0: Initial Points from GPX"),
       Rep(4848, "perl-00-original.txt", "perl-00-initial-points.txt"),
       Ins(4850, "# Stage 1: Remove Duplicate Points"),
       Ins(4854, "# Stage 2: Repeat Track"),
       Ins(4890, "# Stage 3: Crop Points"),
       Ins(4950, "# Stage 4: Fix Zig-Zags"),
       Ins(4955, "# Stage 5: Adjust Altitudes"),
       Ins(4975, "# Stage 6: Reverse Course"),
       Ins(4982, "# Stage 7: Crop Corners"),
       Ins(5008, "# Stage 8: Auto-Straighten"),
       Ins(5050, "# Stage 9: Snap Repeated Points (Pass 1)"),
       Ins(5063, "# Stage 10: Add Corner Splines"),
       Rep(5068, "perl-10-after-splines.txt", "perl-10-splines-added.txt"),
       Ins(5069, "# Stage 11: Add Corner Arc Fits"),
       Rep(5074, "perl-11-after-arcfit.txt", "perl-11-arcfit-added.txt"),
       Ins(5078, "# Stage 12: Auto-Spacing at Corners"),
       Ins(5090, "# Stage 13: Point Interpolation"),
       Ins(5097, "    dumpPoints($points, \"perl-13-interpolated.txt\");"),
       Ins(5099, "# Stage 14: Process Straight Sections"),
       Ins(5104, "    dumpPoints($points, \"perl-14-straights-processed.txt\");"),
       Ins(5105, "# Stage 15: Process Circular Fits"),
       Ins(5110, "    dumpPoints($points, \"perl-15-circles-processed.txt\");"),
       Ins(5111, "# Stage 16: Snap Repeated Points (Pass 2)"),
       Ins(5123, "    dumpPoints($points, \"perl-16-snapped-pass2.txt\");"),
       Ins(5220, "# Stage 17: Add Corner Splines (Post-smoothing)"),
       Ins(5224, "    dumpPoints($points, \"perl-17-splines-added-post-smoothing.txt\");"),
       Ins(5225, "# Stage 18: Add Corner Arc Fits (Post-smoothing)"),
       Ins(5229, "    dumpPoints($points, \"perl-18-arcfit-added-post-smoothing.txt\");"),
       Ins(5230, "# Stage 19: Flatten Sections"),
       Ins(5253, "# Stage 20: Fix Crossings"),
       Ins(5406, "# Stage 21: Auto-Segments"),
       Ins(5458, "# Stage 22: Final Crop"),
       Ins(5464, "    dumpPoints($points, \"perl-22-final-crop.txt\");"),
       Ins(5465, "# Stage 23: Prune Points"),
       Ins(5530, "# Stage 24: Apply Lane Shift"),
       Ins(5566, "    dumpPoints($points, \"perl-24-lane-shift-applied.txt\");"),
       Ins(5567, "# Stage 25: Add Return Points (Out-and-back)"),
       Ins(5572, "    dumpPoints($points, \"perl-25-return-points-added.txt\");"),
       Ins(5573, "# Stage 26: Crop for extendBack"),
       Ins(5575, "  dumpPoints($points, \"perl-26-cropped-for-extend-back.txt\")"),
       Ins(5577, "# Stage 27: Add U-Turn Loops"),
       Ins(5648, "# Stage 28: Apply Minimum Radius"),
       Ins(5712, "# Stage 29: Shift Start/Finish"),
       Ins(5767, "# Stage 30: Copy Start Point to End"),
       Ins(5776, "    dumpPoints($points, \"perl-30-start-point-copied.txt\");") >>

(***************************************************************************)
(* str.split('\n') and '\n'.join, computed by halving so that the depth    *)
(* of the recursion stays logarithmic in the size of the document.         *)
(***************************************************************************)
Char(s, i) == SubSeq(s, i, i)

\* two adjacent pieces of a string, each already split: the last line of
\* the left piece continues in the first line of the right piece
Glue(A, B) ==
    SubSeq(A, 1, Len(A) - 1) \o <<A[Len(A)] \o B[1]>> \o SubSeq(B, 2, Len(B))

RECURSIVE SplitRange(_, _, _)
SplitRange(s, lo, hi) ==
    IF lo > hi THEN <<"">>
    ELSE IF lo = hi
         THEN IF Char(s, lo) = NL THEN <<"", "">> ELSE <<Char(s, lo)>>
         ELSE LET mid == (lo + hi) \div 2
              IN  Glue(SplitRange(s, lo, mid), SplitRange(s, mid + 1, hi))

Split(s) == SplitRange(s, 1, Len(s))

RECURSIVE JoinRange(_, _, _)
JoinRange(ls, lo, hi) ==
    IF lo > hi THEN ""
    ELSE IF lo = hi THEN ls[lo]
         ELSE LET mid == (lo + hi) \div 2
              IN  JoinRange(ls, lo, mid) \o NL \o JoinRange(ls, mid + 1, hi)

\* faulty variant: the text ends with a separator after the last line
JoinTrailing(ls) == JoinRange(ls, 1, Len(ls)) \o NL

Join(ls) == JoinRange(ls, 1, Len(ls))

(***************************************************************************)
(* list.insert(i, x) for i >= 0: an index beyond the end appends.          *)
(***************************************************************************)
\* faulty variant: the new line takes the place of the line at i
ListInsertOverwrite(ls, i, x) ==
    IF i >= Len(ls) THEN Append(ls, x) ELSE [ls EXCEPT ![i + 1] = x]

\* faulty variant: the new line goes after the line at i
ListInsertAfter(ls, i, x) ==
    LET at == IF i + 1 > Len(ls) THEN Len(ls) ELSE i + 1
    IN  SubSeq(ls, 1, at) \o <<x>> \o SubSeq(ls, at + 1, Len(ls))

\* faulty variant: a line that already stands at i is not inserted again
ListInsertIfMissing(ls, i, x) ==
    IF i < Len(ls) /\ ls[i + 1] = x THEN ls
    ELSE LET at == IF i > Len(ls) THEN Len(ls) ELSE i
         IN  SubSeq(ls, 1, at) \o <<x>> \o SubSeq(ls, at + 1, Len(ls))

\* faulty variant: the new line always goes to the end
ListInsertAppend(ls, i, x) == Append(ls, x)

ListInsert(ls, i, x) ==
    LET at == IF i > Len(ls) THEN Len(ls) ELSE i
    IN  SubSeq(ls, 1, at) \o <<x>> \o SubSeq(ls, at + 1, Len(ls))

(***************************************************************************)
(* re.sub(pattern, repl, s) for the patterns of the script: every          *)
(* character of the pattern is a literal but ".", which matches any        *)
(* character of a line.  All non-overlapping matches are replaced,         *)
(* leftmost first; the replacements contain no escapes.                    *)
(***************************************************************************)
MatchAt(pat, s, i) ==
    /\ i >= 1
    /\ i + Len(pat) - 1 <= Len(s)
    /\ \A j \in 1..Len(pat) :
          \/ Char(pat, j) = "."
          \/ Char(pat, j) = Char(s, i + j - 1)

RECURSIVE SubFrom(_, _, _, _)
SubFrom(pat, repl, s, i) ==
    IF i > Len(s) THEN ""
    ELSE IF MatchAt(pat, s, i)
         THEN repl \o SubFrom(pat, repl, s, i + Len(pat))
         ELSE Char(s, i) \o SubFrom(pat, repl, s, i + 1)

\* faulty variant: a line without a match becomes the replacement
ReSubOrRepl(pat, repl, s) ==
    IF \E i \in 1..Len(s) : MatchAt(pat, s, i) THEN SubFrom(pat, repl, s, 1) ELSE repl

ReSub(pat, repl, s) == SubFrom(pat, repl, s, 1)

\* faulty variant: the substitution runs over every line of the document
ReplaceLineAll(ls, i, pat, repl) ==
    [j \in 1..Len(ls) |-> ReSub(pat, repl, ls[j])]

\* lines[i] = re.sub(pattern, repl, lines[i]), for 0 <= i < len(lines)
ReplaceLine(ls, i, pat, repl) ==
    [ls EXCEPT ![i + 1] = ReSub(pat, repl, ls[i + 1])]

(***************************************************************************)
(* The whole pass as a function of the split document: the operations in   *)
(* list order, each on the lines the operations before it produced.        *)
(* lines[i] with i >= len(lines) raises IndexError and ends the pass.      *)
(***************************************************************************)
ApplyOp(ls, op) ==
    IF op.type = "Insert"
    THEN [ok |-> TRUE, lines |-> ListInsert(ls, op.index, op.content)]
    ELSE IF op.index < Len(ls)
         THEN [ok |-> TRUE,
               lines |-> ReplaceLine(ls, op.index, op.pattern, op.replacement)]
         ELSE [ok |-> FALSE, lines |-> ls]

\* faulty variant: the list is walked from its last operation to its first
RECURSIVE ApplyFromBackwards(_, _, _)
ApplyFromBackwards(ls, os, j) ==
    IF j > Len(os) THEN [ok |-> TRUE, lines |-> ls]
    ELSE LET r == ApplyOp(ls, os[Len(os) + 1 - j])
         IN  IF r.ok THEN ApplyFromBackwards(r.lines, os, j + 1) ELSE r

RECURSIVE ApplyFrom(_, _, _)
ApplyFrom(ls, os, j) ==
    IF j > Len(os) THEN [ok |-> TRUE, lines |-> ls]
    ELSE LET r == ApplyOp(ls, os[j])
         IN  IF r.ok THEN ApplyFrom(r.lines, os, j + 1) ELSE r

\* apply_changes(text): the returned text, or ok = FALSE when it raises
apply_changes(text) ==
    LET r == ApplyFrom(Split(text), CompiledOps, 1)
    IN  [ok |-> r.ok, text |-> IF r.ok THEN Join(r.lines) ELSE ""]

(***************************************************************************)
(* Input documents.                                                        *)
(***************************************************************************)
InsertsBefore(os, j) == Cardinality({i \in 1..(j - 1) : os[i].type = "Insert"})

NumInserts(os) == InsertsBefore(os, Len(os) + 1)

\* the least number of input lines with which operation j is in range
NeedLen(os, j) ==
    IF os[j].type = "Insert"
    THEN os[j].index - InsertsBefore(os, j)
    ELSE os[j].index + 1 - InsertsBefore(os, j)

ReplaceOps(os) == {j \in 1..Len(os) : os[j].type = "Replace"}

\* the input line (1-based) that Replace j addresses in a long enough input
AuthoredTarget(os, j) == os[j].index - InsertsBefore(os, j) + 1

Max(S) == CHOOSE x \in S : \A y \in S : y <= x

Thresholds ==
    {NeedLen(CompiledOps, j) : j \in ReplaceOps(CompiledOps)}
        \cup {Max({NeedLen(CompiledOps, j) : j \in 1..Len(CompiledOps)})}

Lengths == {1} \cup {t + d : t \in Thresholds, d \in (0 - 1)..Slack}

\* what stands at the lines the Replace operations address
Variants == {"once", "absent", "twice", "nodot"}

Underscored(pat) ==
    LET RECURSIVE U(_)
        U(i) == IF i > Len(pat) THEN ""
                ELSE (IF Char(pat, i) = "." THEN "_" ELSE Char(pat, i)) \o U(i + 1)
    IN  U(1)

\* an ordinary line: neighbouring lines differ, every tenth line is empty
Filler(p) == IF p % 10 = 0 THEN "" ELSE ToString(p % 10)

TargetLine(v, pat, p) ==
    CASE v = "once"   -> "    dumpPoints($points, \"" \o pat \o "\");"
      [] v = "absent" -> Filler(p)
      [] v = "twice"  -> pat \o " " \o pat
      [] v = "nodot"  -> "    dumpPoints($points, \"" \o Underscored(pat) \o "\");"

\* the input lines (1-based) the Replace operations of the list address
AuthoredTargets ==
    {AuthoredTarget(CompiledOps, j) : j \in ReplaceOps(CompiledOps)}

ReplaceAt(p) ==
    CHOOSE j \in ReplaceOps(CompiledOps) : AuthoredTarget(CompiledOps, j) = p

DocLines(n, v) ==
    LET tgts == AuthoredTargets
    IN  [p \in 1..n |->
            IF p \in tgts
            THEN TargetLine(v, CompiledOps[ReplaceAt(p)].pattern, p)
            ELSE Filler(p)]

FreshDocs == {Join(DocLines(n, v)) : n \in Lengths, v \in Variants}

\* a document the list has already been applied to
PatchedDocs ==
    {apply_changes(Join(DocLines(Max(Lengths), v))).text : v \in {"once", "absent"}}

NoFile == [exists |-> FALSE, data |-> ""]

OldFile == [exists |-> TRUE, data |-> "old"]

SmallLines == {"", "a", "b", "c", "a-cc"}

SmallDocs ==
    {Join(ls) : ls \in UNION {[1..n -> SmallLines] : n \in 1..MaxDocLines}}

SmallEdits == {<<"c", "C">>, <<"a.c", "Z">>}

SmallOps ==
    {Ins(i, "x") : i \in 0..MaxIndex}
        \cup {Rep(i, e[1], e[2]) : i \in 0..MaxIndex, e \in SmallEdits}

SmallLists == {<<o>> : o \in SmallOps} \cup (SmallOps \X SmallOps)

(***************************************************************************)
(* Initial states.                                                         *)
(***************************************************************************)
Blank ==
    /\ content = ""
    /\ lines = <<>>
    /\ k = 0
    /\ pc = "read"
    /\ new_content = ""
    /\ orig = <<>>
    /\ origin = <<>>
    /\ log = <<>>

\* the script and its compiled list
Init ==
    /\ inFile \in FreshDocs \cup PatchedDocs
    /\ outFile \in {NoFile, OldFile}
    /\ ops = CompiledOps
    /\ Blank

\* the same statements on small documents and short lists
InitOps ==
    /\ inFile \in SmallDocs
    /\ outFile = NoFile
    /\ ops \in SmallLists
    /\ Blank

(***************************************************************************)
(* The steps of the script.                                                *)
(***************************************************************************)
\* with open('processGPX', 'r') as f: content = f.read()
ReadInput ==
    /\ pc = "read"
    /\ content' = inFile
    /\ pc' = "split"
    /\ UNCHANGED <<inFile, outFile, lines, k, new_content, ops, orig, origin, log>>

\* lines = content.split('\n')
SplitLines ==
    /\ pc = "split"
    /\ lines' = Split(content)
    /\ orig' = lines'
    /\ origin' = [p \in 1..Len(lines') |-> p]
    /\ log' = <<>>
    /\ k' = 0
    /\ pc' = "apply"
    /\ UNCHANGED <<inFile, outFile, content, new_content, ops>>

\* lines.insert(i, c)
ApplyInsert ==
    /\ pc = "apply"
    /\ k < Len(ops)
    /\ ops[k + 1].type = "Insert"
    /\ lines' = ListInsert(lines, ops[k + 1].index, ops[k + 1].content)
    /\ origin' = ListInsert(origin, ops[k + 1].index, 0)
    /\ log' = Append(log, [len |-> Len(lines), target |-> 0])
    /\ k' = k + 1
    /\ UNCHANGED <<inFile, outFile, content, pc, new_content, ops, orig>>

\* lines[i] = re.sub(pattern, repl, lines[i])
ApplyReplace ==
    /\ pc = "apply"
    /\ k < Len(ops)
    /\ ops[k + 1].type = "Replace"
    /\ ops[k + 1].index < Len(lines)
    /\ lines' = ReplaceLine(lines, ops[k + 1].index,
                            ops[k + 1].pattern, ops[k + 1].replacement)
    /\ log' = Append(log, [len |-> Len(lines),
                           target |-> origin[ops[k + 1].index + 1]])
    /\ k' = k + 1
    /\ UNCHANGED <<inFile, outFile, content, pc, new_content, ops, orig, origin>>

\* lines[i] raises IndexError: the exception leaves apply_changes and the script
ReplaceIndexError ==
    /\ pc = "apply"
    /\ k < Len(ops)
    /\ ops[k + 1].type = "Replace"
    /\ ops[k + 1].index >= Len(lines)
    /\ pc' = "raised"
    /\ UNCHANGED <<inFile, outFile, content, lines, k, new_content, ops,
                   orig, origin, log>>

\* return "\n".join(lines)
ReturnJoined ==
    /\ pc = "apply"
    /\ k = Len(ops)
    /\ new_content' = Join(lines)
    /\ pc' = "returned"
    /\ UNCHANGED <<inFile, outFile, content, lines, k, ops, orig, origin, log>>

\* faulty variant: the output is written after a failed pass too
WriteOutputFinally ==
    /\ pc \in {"returned", "raised"}
    /\ outFile' = [exists |-> TRUE, data |-> new_content]
    /\ pc' = "done"
    /\ UNCHANGED <<inFile, content, lines, k, new_content, ops, orig, origin, log>>

\* with open('processGPX_new', 'w') as f: f.write(new_content)
WriteOutput ==
    /\ pc = "returned"
    /\ outFile' = [exists |-> TRUE, data |-> new_content]
    /\ pc' = "done"
    /\ UNCHANGED <<inFile, content, lines, k, new_content, ops, orig, origin, log>>

Next ==
    \/ ReadInput
    \/ SplitLines
    \/ ApplyInsert
    \/ ApplyReplace
    \/ ReplaceIndexError
    \/ ReturnJoined
    \/ WriteOutput

Spec == Init /\ [][Next]_vars

SpecOps == InitOps /\ [][Next]_vars

SpecAll == (Init \/ InitOps) /\ [][Next]_vars

(***************************************************************************)
(* Vocabulary of the properties.                                           *)
(***************************************************************************)
\* operation k + 1 is about to be applied
Pending == pc = "apply" /\ k < Len(ops)

OutOfRange(op, ls) ==
    IF op.type = "Insert" THEN op.index > Len(ls) ELSE op.index >= Len(ls)

MatchStarts(pat, s) == {i \in 1..Len(s) : MatchAt(pat, s, i)}

Occurs(pat, s) == MatchStarts(pat, s) # {}

\* the input lines (1-based) that a Replace of the pass addressed
Targets == {log[j].target : j \in {i \in 1..Len(log) : ops[i].type = "Replace"}} \ {0}

\* every operation applied so far had its index inside the document
InRangeSoFar ==
    \A j \in 1..Len(log) :
        IF ops[j].type = "Insert" THEN ops[j].index <= log[j].len
        ELSE ops[j].index < log[j].len

\* the two operations of the worked example on ["a", "b", "c"]
Scenario == <<Ins(1, "x"), Rep(3, "c", "C")>>

RECURSIVE KeepRange(_, _, _)
KeepRange(s, lo, hi) ==
    IF lo > hi THEN <<>>
    ELSE IF lo = hi THEN (IF s[lo] = 0 THEN <<>> ELSE <<s[lo]>>)
         ELSE LET mid == (lo + hi) \div 2
              IN  KeepRange(s, lo, mid) \o KeepRange(s, mid + 1, hi)

\* the entries of origin that are input lines, in document order
KeptOrigins == KeepRange(origin, 1, Len(origin))

\* C1: an operation whose index is outside the document as it stands when
\* the operation is applied (Insert: index > length, Replace: index >=
\* length) aborts the pass; it is never clamped to another position.
C1_OutOfRangeIsFatal ==
    [][(Pending /\ OutOfRange(ops[k + 1], lines)) => pc' = "raised"]_vars

\* C2: while the compiled list is applied the document has as many lines as
\* the input plus the Inserts applied so far (a Replace adds none), and the
\* returned text has the input's number of lines plus 42.
C2_LineCount ==
    /\ NumInserts(CompiledOps) = 42
    /\ pc = "apply" => Len(lines) = Len(orig) + InsertsBefore(ops, k + 1)
    /\ pc = "returned" =>
          Len(Split(new_content)) = Len(Split(content)) + NumInserts(ops)

C2_Witness ==
    /\ pc = "returned"
    /\ ops = CompiledOps
    /\ lines[ops[2].index + 1] # orig[ops[2].index]
    /\ Len(lines) = Len(orig) + 42

\* C3: in the returned text the lines that were not inserted are the input
\* lines in input order, each byte-identical to the input unless a Replace
\* addressed it, and at most 3 input lines were addressed.
C3_Frame ==
    pc = "returned" =>
        LET out == Split(new_content)
            inp == Split(content)
            tgt == Targets
        IN  /\ Len(out) = Len(origin)
            /\ KeptOrigins = [p \in 1..Len(inp) |-> p]
            /\ \A j \in 1..Len(out) :
                  (origin[j] # 0 /\ origin[j] \notin tgt)
                      => out[j] = inp[origin[j]]
            /\ Cardinality(tgt) <= 3

C3_Witness ==
    /\ pc = "returned"
    /\ \E t \in Targets : \E j \in 1..Len(lines) :
          origin[j] = t /\ lines[j] # orig[t]
    /\ \E j \in 1..Len(log) : ops[j].type = "Insert" /\ ops[j].index > log[j].len

\* C4: an Insert{i, c} applied to a document of N lines with i <= N gives
\* N + 1 lines with c at position i, the lines before i where they were and
\* the lines from i on one position further.
C4_InsertShifts ==
    [][(Pending /\ ops[k + 1].type = "Insert" /\ ops[k + 1].index <= Len(lines)
            /\ k' = k + 1)
        => LET i == ops[k + 1].index
           IN  /\ Len(lines') = Len(lines) + 1
               /\ lines'[i + 1] = ops[k + 1].content
               /\ \A p \in 0..(Len(lines) - 1) :
                     IF p < i THEN lines'[p + 1] = lines[p + 1]
                     ELSE lines'[p + 2] = lines[p + 1]]_vars

C4_Witness ==
    /\ pc = "apply"
    /\ k >= 1
    /\ ops[k].type = "Insert"
    /\ ops[k].index > 0
    /\ ops[k].index < log[k].len
    /\ lines[ops[k].index + 1] = ops[k].content

\* C5: a Replace with an in-range index whose pattern does not occur in the
\* line leaves every line as it was and does not end the pass: the next
\* operation is reached, and a pass of such Replaces returns the input text.
C5_AbsentPatternNoOp ==
    /\ [][(Pending /\ ops[k + 1].type = "Replace" /\ ops[k + 1].index < Len(lines)
              /\ ~Occurs(ops[k + 1].pattern, lines[ops[k + 1].index + 1]))
          => (lines' = lines /\ pc' = "apply" /\ k' = k + 1)]_vars
    /\ [](( /\ pc = "returned"
            /\ \A j \in 1..Len(ops) :
                  /\ ops[j].type = "Replace"
                  /\ ops[j].index < Len(orig)
                  /\ ~Occurs(ops[j].pattern, orig[ops[j].index + 1]))
          => new_content = content)

C5_Witness ==
    /\ pc = "returned"
    /\ Len(ops) = 2
    /\ ops[1].type = "Replace"
    /\ ops[1].index < Len(orig)
    /\ ~Occurs(ops[1].pattern, orig[ops[1].index + 1])
    /\ ops[2].type = "Insert"
    /\ Len(lines) = Len(orig) + 1

\* C6: a Replace with an in-range index whose pattern occurs exactly once
\* in the line puts the replacement in the place of that occurrence, keeps
\* the rest of the line, and leaves every other line as and where it was.
C6_ReplaceOnce ==
    [][(Pending /\ ops[k + 1].type = "Replace" /\ ops[k + 1].index < Len(lines)
            /\ Cardinality(MatchStarts(ops[k + 1].pattern,
                                       lines[ops[k + 1].index + 1])) = 1
            /\ k' = k + 1)
        => LET i   == ops[k + 1].index
               pat == ops[k + 1].pattern
               s   == lines[i + 1]
               m   == CHOOSE m \in MatchStarts(pat, s) : TRUE
           IN  /\ Len(lines') = Len(lines)
               /\ lines'[i + 1] = SubSeq(s, 1, m - 1) \o ops[k + 1].replacement
                                      \o SubSeq(s, m + Len(pat), Len(s))
               /\ \A j \in 1..Len(lines) : j # i + 1 => lines'[j] = lines[j]]_vars

C6_Witness ==
    /\ pc = "apply"
    /\ k = 1
    /\ ops[1].type = "Replace"
    /\ ops[1].index < Len(orig)
    /\ Len(orig) > 1
    /\ Cardinality(MatchStarts(ops[1].pattern, orig[ops[1].index + 1])) = 1
    /\ Len(orig[ops[1].index + 1]) > Len(ops[1].pattern)
    /\ lines[ops[1].index + 1] # orig[ops[1].index + 1]

\* C7: the operations are applied one at a time in list order, each on the
\* lines the operations before it produced: every step applies operation
\* k + 1 to the current lines, the returned text is the list folded over
\* the input in order, ["a","b","c"] with Insert(1,"x"), Replace(3,"c","C")
\* gives ["a","x","b","C"], and in the compiled list the Replace at 4848
\* rewrites input line 4847.
C7_InListOrder ==
    /\ [][(pc = "apply" /\ k' # k)
          => /\ k' = k + 1
             /\ ApplyOp(lines, ops[k + 1]) = [ok |-> TRUE, lines |-> lines']]_vars
    /\ [](pc = "returned" =>
            new_content = Join(ApplyFrom(Split(content), ops, 1).lines))
    /\ []((pc = "returned" /\ ops = Scenario /\ content = "a\nb\nc")
            => new_content = "a\nx\nb\nC")
    /\ []((pc = "apply" /\ ops = CompiledOps /\ k >= 2)
            => /\ log[2].target = 4847 + 1
               /\ origin[4848 + 1] = 4847 + 1
               /\ lines[4848 + 1] =
                      ReSub(ops[2].pattern, ops[2].replacement, orig[4847 + 1]))

C7_Witness ==
    /\ pc = "returned"
    /\ ops = Scenario
    /\ content = "a\nb\nc"
    /\ lines = <<"a", "x", "b", "C">>

\* the compiled list's case of C7 is reached: its first Replace rewrote a line
C7_CompiledCase ==
    /\ pc = "apply"
    /\ ops = CompiledOps
    /\ k = 2
    /\ lines[4848 + 1] # orig[4847 + 1]

\* C8: a second pass of the compiled list over the text a first pass
\* returned, when it completes, returns a different text.
C8_NotIdempotent ==
    pc = "returned" =>
        LET second == apply_changes(new_content)
        IN  second.ok => second.text # new_content

C8_Witness ==
    /\ pc = "returned"
    /\ ops = CompiledOps
    /\ apply_changes(new_content).ok
    /\ InRangeSoFar

\* C9: the indices of the compiled list increase strictly, and when every
\* operation was in range as it was applied, the returned document has the
\* content of each Insert{i, c} at line i and the line each Replace
\* addressed is a line of the input, still at the Replace's index.
C9_PlacedLinesStay ==
    /\ \A j \in 1..(Len(CompiledOps) - 1) :
          CompiledOps[j].index < CompiledOps[j + 1].index
    /\ (pc = "returned" /\ InRangeSoFar) =>
          LET out == Split(new_content)
          IN  \A j \in 1..Len(ops) :
                 IF ops[j].type = "Insert"
                 THEN /\ out[ops[j].index + 1] = ops[j].content
                      /\ origin[ops[j].index + 1] = 0
                 ELSE /\ log[j].target # 0
                      /\ origin[ops[j].index + 1] = log[j].target

C9_Witness ==
    /\ pc = "returned"
    /\ ops = CompiledOps
    /\ InRangeSoFar
    /\ Cardinality(Targets) = 3
    /\ \A t \in Targets : \E j \in 1..Len(lines) :
          origin[j] = t /\ lines[j] # orig[t]

\* C10: processGPX_new changes only in the step that follows the return of
\* a pass that applied all 45 operations; a Replace beyond the end of the
\* document stops the run at that operation, and a stopped run does nothing
\* more.
C10_AllOrNothing ==
    [][/\ outFile' # outFile
          => /\ pc = "returned"
             /\ k = Len(ops)
             /\ Len(ops) = 45
             /\ outFile' = [exists |-> TRUE, data |-> new_content]
       /\ pc # "raised"
       /\ (Pending /\ ops[k + 1].type = "Replace" /\ ops[k + 1].index >= Len(lines))
          => /\ pc' = "raised"
             /\ UNCHANGED <<lines, k, outFile, new_content>>]_vars

C10_Witness ==
    /\ pc = "raised"
    /\ k >= 2
    /\ outFile = NoFile
    /\ lines # orig

====
